---- MODULE Spec2Model ----
(***************************************************************************)
(* A model of the crewai-langwatch-demo glue code:                         *)
(*   adapters/crew_adapter.py      CrewAIAdapter (per-thread state, call)  *)
(*   scenarios/judges/custom_judges.py   the heuristic judges              *)
(*                                                                         *)
(* Text.  A Python str is a sequence of tokens.  A token is either one     *)
(* character (" ", "\n", "[", "#", "a", ...) or an indivisible chunk of    *)
(* characters ("Agent:", "Cust", "A7", ...).  The alphabets used below are *)
(* chosen so that no substring the code searches for straddles a token     *)
(* boundary; a substring test is then a test on single tokens.  None (a    *)
(* value that is not a str) is NoneValue, whose token is in no alphabet.   *)
(***************************************************************************)
EXTENDS Integers, Sequences, FiniteSets, TLC

VARIABLES
    \* ---- CrewAIAdapter ----
    conversation_history,   \* self.conversation_history: thread id -> ref of its entry dict
    entries,                \* heap of entry dicts: ref -> [crew, messages, context] (refs)
    lists,                  \* heap of list objects: ref -> sequence of messages
    dicts,                  \* heap of context dicts: ref -> mapping key -> value
    crews,                  \* responder instances constructed so far: ref -> times invoked
    tasks,                  \* the coroutines of call, in the order the calls were made
    \* ---- pure functions under test ----
    fn,                     \* which function the record below is about
    arg,                    \* its input
    out,                    \* the results computed so far, in order
    \* ---- the judges ----
    judges,                 \* the attributes of the three judge instances
    \* ---- main.py ----
    runner                  \* the DemoRunner and the locals of the mode it runs

vars ==
    <<conversation_history, entries, lists, dicts, crews, tasks, fn, arg, out, judges, runner>>

adapterVars == <<conversation_history, entries, lists, dicts, crews, tasks>>

pureVars == <<fn, arg, out, judges, runner>>

NoneValue == <<"None">>

\* self.evaluation_criteria of CustomerServiceQualityJudge.__init__
evaluation_criteria ==
    <<"Empathy and emotional intelligence", "Professional tone and language",
      "Active listening and acknowledgment", "Clear and helpful communication",
      "Problem-solving approach", "Customer satisfaction focus">>

\* The judges as their __init__ leaves them, with the default model.
NewJudges ==
    [quality    |-> [model |-> "openai/gpt-4o", evaluation_criteria |-> evaluation_criteria],
     technical  |-> [model |-> "openai/gpt-4o"],
     escalation |-> [model |-> "openai/gpt-4o"]]

\* A DemoRunner that runs no mode.
NoRunner == [pc |-> "none"]

\* A call that leaves a mark on the judge.
JudgeRemembering(self) == [self EXCEPT !.model = "seen"]

\* The attributes of a judge after its call: call assigns none of them.
JudgeAfterCall(self) == self

-----------------------------------------------------------------------------
(* Sequences and text *)

RECURSIVE SeqsUpTo(_, _)
\* All sequences over S of length at most n.
SeqsUpTo(S, n) ==
    IF n = 0 THEN {<<>>}
    ELSE LET shorter == SeqsUpTo(S, n - 1)
         IN  shorter \cup {Append(s, x) : s \in {t \in shorter : Len(t) = n - 1}, x \in S}

\* str.lower() on one token.
LowerToken(c) ==
    CASE c = "Agent:"  -> "agent:"
      [] c = "Cust"    -> "cust"
      [] c = "A7"      -> "a7"
      [] c = "CUST001" -> "cust001"
      [] c = "AGENT:"  -> "agent:"
      [] c = "CUSTOMER:" -> "customer:"
      [] c = "API"     -> "api"
      [] c = "I"       -> "i"
      [] c = "I'll"    -> "i'll"
      [] c = "Manager" -> "manager"
      [] OTHER         -> c

\* str.lower()
Lower(s) == [i \in 1..Len(s) |-> LowerToken(s[i])]

\* The characters str.strip() and str.split() treat as whitespace.
Whitespace == {" ", "\t", "\r", "\n"}

RECURSIVE LStrip(_)
LStrip(s) == IF s # <<>> /\ Head(s) \in Whitespace THEN LStrip(Tail(s)) ELSE s

RECURSIVE RStrip(_)
RStrip(s) ==
    IF s # <<>> /\ s[Len(s)] \in Whitespace THEN RStrip(SubSeq(s, 1, Len(s) - 1)) ELSE s

\* str.strip()
Strip(s) == RStrip(LStrip(s))

\* str.startswith(prefix)
StartsWith(s, prefix) ==
    Len(s) >= Len(prefix) /\ SubSeq(s, 1, Len(prefix)) = prefix

RECURSIVE SplitOn(_, _)
\* str.split(sep) for a one-character separator: always at least one piece.
SplitOn(s, sep) ==
    IF \A i \in 1..Len(s) : s[i] # sep THEN <<s>>
    ELSE LET k == CHOOSE i \in 1..Len(s) : s[i] = sep /\ \A j \in 1..(i - 1) : s[j] # sep
         IN  <<SubSeq(s, 1, k - 1)>> \o SplitOn(SubSeq(s, k + 1, Len(s)), sep)

RECURSIVE Words(_)
\* str.split() with no argument: the maximal runs of non-whitespace.
Words(s) ==
    LET t == LStrip(s)
    IN  IF t = <<>> THEN <<>>
        ELSE LET ends == {i \in 1..Len(t) : t[i] \in Whitespace}
                 k    == IF ends = {} THEN Len(t) + 1
                         ELSE CHOOSE i \in ends : \A j \in ends : i <= j
             IN  <<SubSeq(t, 1, k - 1)>> \o Words(SubSeq(t, k, Len(t)))

RECURSIVE Join(_, _)
\* sep.join(parts)
Join(parts, sep) ==
    IF parts = <<>> THEN <<>>
    ELSE IF Len(parts) = 1 THEN parts[1]
    ELSE parts[1] \o <<sep>> \o Join(Tail(parts), sep)

\* "phrase in s" for a phrase that is one token of the alphabet.
Contains(s, phrase) == \E i \in 1..Len(s) : s[i] = phrase

-----------------------------------------------------------------------------
(* CrewAIAdapter._format_crew_response: the response cleaner *)

\* The skip phrases of the execution-log filter.
skip_phrases == {"agent:", "task:", "crew:", "executing", "delegating", "final answer:"}

\* any(skip_phrase in line.lower() for skip_phrase in [...])
LooksLikeLog(line) == \E p \in skip_phrases : Contains(Lower(line), p)

\* A keep test that looks at the trimmed line.
LooksLikeResponseTrimmed(line) ==
    /\ Strip(line) # <<>>
    /\ ~StartsWith(Strip(line), <<"[">>)
    /\ ~StartsWith(Strip(line), <<"#", "#">>)

\* line.strip() and not line.startswith('[') and not line.startswith('##')
LooksLikeResponse(line) ==
    /\ Strip(line) # <<>>
    /\ ~StartsWith(line, <<"[">>)
    /\ ~StartsWith(line, <<"#", "#">>)

RECURSIVE CleanedLines(_)
\* The loop over lines: cleaned_lines, in order.
CleanedLines(lines) ==
    IF lines = <<>> THEN <<>>
    ELSE LET line == Head(lines)
             rest == CleanedLines(Tail(lines))
         IN  IF LooksLikeLog(line) THEN rest
             ELSE IF LooksLikeResponse(line) THEN <<Strip(line)>> \o rest
             ELSE rest

\* A cleaner that forgets the fallback to the original text.
FormatNoFallback(response) == Join(CleanedLines(SplitOn(response, "\n")), "\n")

_format_crew_response(response) ==
    LET cleaned_lines == CleanedLines(SplitOn(response, "\n"))
    IN  IF cleaned_lines # <<>> THEN Join(cleaned_lines, "\n") ELSE response

-----------------------------------------------------------------------------
(* CrewAIAdapter._extract_customer_id *)

\* isinstance(x, str)
IsStr(x) == x # NoneValue

\* 'cust' in word, for a lower-cased word: some token of it holds "cust".
HasCust(word) == \E i \in 1..Len(word) : word[i] \in {"cust", "cust001"}

\* The generated default customer id.
DefaultCustomerId == <<"CUST001">>

RECURSIVE ScanWords(_, _, _)
\* for i, word in enumerate(words): the word at distance off from the first
\* word that holds 'cust' and has a successor; NoneValue when the loop ends.
ScanWords(words, i, off) ==
    IF i > Len(words) THEN NoneValue
    ELSE IF HasCust(words[i]) /\ i + 1 <= Len(words) THEN words[i + off]
    ELSE ScanWords(words, i + 1, off)

RECURSIVE ScanMessages(_, _)
\* for msg in messages: the first value a message's word loop returns.
ScanMessages(messages, off) ==
    IF messages = <<>> THEN DefaultCustomerId
    ELSE LET msg     == Head(messages)
             content == Lower(msg.content)
             found   == ScanWords(Words(content), 1, off)
         IN  IF IsStr(msg.content) /\ HasCust(content) /\ found # NoneValue
             THEN found
             ELSE ScanMessages(Tail(messages), off)

\* An extraction that returns the matching word itself, not its successor.
ExtractMatchedWord(messages) == ScanMessages(messages, 0)

\* An extraction that looks at the latest message first.
ExtractLatestFirst(messages) ==
    ScanMessages([i \in 1..Len(messages) |-> messages[Len(messages) + 1 - i]], 1)

_extract_customer_id(messages) == ScanMessages(messages, 1)

-----------------------------------------------------------------------------
(* CrewAIAdapter: per-thread state on a heap of objects *)

ThreadIds == {"t1", "t2"}

MaxCalls == 2

\* The calls, numbered in the order they are made; any number of them may be
\* in flight at once.
Calls == 1..MaxCalls

\* dict.get(key, default) and dict[key] = value
DictGet(d, key, default) == IF key \in DOMAIN d THEN d[key] ELSE default

DictSet(d, key, value) == (key :> value) @@ d

\* The adapter's objects: self.conversation_history and what it refers to.
Heap ==
    [conversation_history |-> conversation_history, entries |-> entries,
     lists |-> lists, dicts |-> dicts, crews |-> crews]

\* A _get_or_create_crew that gives every new thread the first list object.
GetOrCreateSharedList(H, thread_id) ==
    IF thread_id \notin DOMAIN H.conversation_history
    THEN [H EXCEPT
            !.conversation_history = (thread_id :> (Len(H.entries) + 1)) @@ @,
            !.entries = Append(@, [crew     |-> Len(H.crews) + 1,
                                   messages |-> 1,
                                   context  |-> Len(H.dicts) + 1]),
            !.lists   = IF @ = <<>> THEN <<<<>>>> ELSE @,
            !.dicts   = Append(@, <<>>),
            !.crews   = Append(@, 0)]
    ELSE H

\* A failed construction that leaves an entry without a responder behind.
EntryLeftBehind(H, thread_id) ==
    [H EXCEPT
        !.conversation_history = (thread_id :> (Len(H.entries) + 1)) @@ @,
        !.entries = Append(@, [crew     |-> 0,
                               messages |-> Len(H.lists) + 1,
                               context  |-> Len(H.dicts) + 1]),
        !.lists   = Append(@, <<>>),
        !.dicts   = Append(@, <<>>)]

\* The heap after _get_or_create_crew(thread_id) when the constructor of the
\* crew class raises: the dict literal of lines 41-45 is never built, so
\* nothing is assigned.
ConstructorRaised(H, thread_id) == H

\* A _get_or_create_crew that makes a new entry on every call.
CreateAlways(H, thread_id) ==
    [H EXCEPT
        !.conversation_history = (thread_id :> (Len(H.entries) + 1)) @@ @,
        !.entries = Append(@, [crew     |-> Len(H.crews) + 1,
                               messages |-> Len(H.lists) + 1,
                               context  |-> Len(H.dicts) + 1]),
        !.lists   = Append(@, <<>>),
        !.dicts   = Append(@, <<>>),
        !.crews   = Append(@, 0)]

\* The heap after _get_or_create_crew(thread_id), when the constructor of
\* the crew class does not raise: a new entry dict with a fresh crew
\* instance, a fresh empty list and a fresh empty dict, on first contact.
_get_or_create_crew(H, thread_id) ==
    IF thread_id \notin DOMAIN H.conversation_history
    THEN [H EXCEPT
            !.conversation_history = (thread_id :> (Len(H.entries) + 1)) @@ @,
            !.entries = Append(@, [crew     |-> Len(H.crews) + 1,
                                   messages |-> Len(H.lists) + 1,
                                   context  |-> Len(H.dicts) + 1]),
            !.lists   = Append(@, <<>>),
            !.dicts   = Append(@, <<>>),
            !.crews   = Append(@, 0)]
    ELSE H

\* An extend that puts the new messages in front of the stored ones.
ExtendFront(H, entry, new_messages) ==
    [H EXCEPT !.lists[H.entries[entry].messages] = new_messages \o @]

\* An append that also notes in the context that a turn is under way.
ExtendAndNote(H, entry, new_messages) ==
    [H EXCEPT !.lists[H.entries[entry].messages] = @ \o new_messages,
              !.dicts[H.entries[entry].context] = DictSet(@, "last_response", <<>>)]

\* thread_context['messages'].extend(new_messages)
Extend(H, entry, new_messages) ==
    [H EXCEPT !.lists[H.entries[entry].messages] = @ \o new_messages]

\* A context update that is lost.
SetContextLost(H, entry, key, value) == H

\* A context update that writes the key into the context of every thread id.
SetContextEverywhere(H, entry, key, value) ==
    [H EXCEPT !.dicts = [d \in DOMAIN @ |-> DictSet(@[d], key, value)]]

\* thread_context['context'][key] = value
SetContext(H, entry, key, value) ==
    [H EXCEPT !.dicts[H.entries[entry].context] = DictSet(@, key, value)]

RECURSIVE ContextParts(_)
\* The loop of _format_conversation_context: one part per message with a
\* known role.
ContextParts(messages) ==
    IF messages = <<>> THEN <<>>
    ELSE LET msg  == Head(messages)
             rest == ContextParts(Tail(messages))
         IN  IF msg.role = "user" THEN <<<<"Customer: ">> \o msg.content>> \o rest
             ELSE IF msg.role = "assistant" THEN <<<<"Agent: ">> \o msg.content>> \o rest
             ELSE IF msg.role = "system" THEN <<<<"System: ">> \o msg.content>> \o rest
             ELSE rest

_format_conversation_context(messages) == Join(ContextParts(messages), "\n")

\* CustomerServiceCrew.get_crew_info(): the static description of a crew.
CrewInfo == <<"agents", "process", "tools">>

\* The object _handle_judgment_request serialises with json.dumps.
_handle_judgment_request(H, input, thread_context) ==
    LET context == H.dicts[H.entries[thread_context].context]
    IN  [conversation_summary |-> _format_conversation_context(input.messages),
         total_messages       |-> Len(input.messages),
         customer_id          |-> DictGet(context, "customer_id", <<"unknown">>),
         last_response        |-> DictGet(context, "last_response", <<>>),
         crew_info            |-> CrewInfo]

\* The user-facing text of the except branch of call, for str(e) = text.
ApologyText(text) ==
    <<"I apologize, but I encountered an error while processing your request. ",
      "Please try again or contact support if the issue persists. ",
      "Error: ", "Error in CrewAI adapter: ">> \o text

\* What call hands to its caller: a reply, a judgment summary, or, when an
\* exception leaves call, the exception.
Returned(kind, text, summary) == [kind |-> kind, text |-> text, summary |-> summary]

NoSummary == _handle_judgment_request(
                 [entries |-> <<[context |-> 1]>>, dicts |-> <<<<>>>>],
                 [messages |-> <<>>], 1)

\* An except branch that lets the exception through.
Reraise(text) == Returned("exception", text, NoSummary)

\* except Exception as e: return f"I apologize ... Error: {error_msg}"
Caught(text) == Returned("apology", ApologyText(text), NoSummary)

\* A branch test that looks at the content of the last message.
JudgmentByContent(input) ==
    \/ input.judgment_request
    \/ (input.messages # <<>> /\ input.messages[Len(input.messages)].content = <<"a">>)

\* A branch test that never takes the judgment branch.
JudgmentIgnored(input) == FALSE

\* if input.judgment_request:
IsJudgment(input) == input.judgment_request

-----------------------------------------------------------------------------
(* CrewAIAdapter.call: inputs, faults and the steps of one call *)

Hello == [role |-> "user", content |-> <<"a">>]

WithId == [role |-> "user", content |-> <<"Cust", " ", "A7">>]

Answer == [role |-> "assistant", content |-> <<"a">>]

\* The (messages, new_messages) pairs the harness sends: new_messages is a
\* suffix of messages, with or without a user message in it.
Conversations ==
    {<<<<Hello>>, <<Hello>>>>,
     <<<<Hello, WithId>>, <<WithId>>>>,
     <<<<WithId, Answer>>, <<Answer>>>>}

\* AgentInput
Inputs ==
    {[thread_id |-> t, messages |-> c[1], new_messages |-> c[2], judgment_request |-> j] :
        t \in ThreadIds, c \in Conversations, j \in BOOLEAN}

\* What handle_inquiry may hand back: a str, a value that is not a str, or
\* an exception.
Replies == {<<"Agent:", "\n", " ", "a">>, <<"[", "\n", "#">>, NoneValue}

ConstructError == <<"crew init failed">>

ExtractError == <<"No new user messages found">>

InfoError == <<"crew info failed">>

ResponderError == <<"boom">>

CleanerError == <<"'NoneType' object has no attribute 'split'">>

\* The place where this call's code raises before its first await, if any:
\* the constructor of the crew class, input.last_new_user_message_str(), or
\* crew.get_crew_info().
Faults == {"none", "construct", "extract", "crew_info"}

HasNewUserMessage(input) ==
    \E i \in 1..Len(input.new_messages) : input.new_messages[i].role = "user"

FaultApplies(fault, input) ==
    CASE fault = "construct" -> input.thread_id \notin DOMAIN conversation_history
      [] fault = "extract"   -> ~HasNewUserMessage(input)
      [] fault = "crew_info" -> input.judgment_request
      [] OTHER               -> TRUE

\* input.last_new_user_message_str(), when it does not raise.
LastNewUserMessage(input) ==
    IF HasNewUserMessage(input)
    THEN LET k == CHOOSE i \in 1..Len(input.new_messages) :
                      /\ input.new_messages[i].role = "user"
                      /\ \A j \in (i + 1)..Len(input.new_messages) :
                             input.new_messages[j].role # "user"
         IN  input.new_messages[k].content
    ELSE <<>>

NoFuture == [state |-> "none", value |-> <<>>]

NoResult == Returned("none", <<>>, NoSummary)

NoInput ==
    [thread_id |-> "", messages |-> <<>>, new_messages |-> <<>>, judgment_request |-> FALSE]

\* A call that has not been made yet.
IdleTask ==
    [pc |-> "idle", input |-> NoInput, crew |-> 0, thread_context |-> 0,
     user_message |-> <<>>, customer_id |-> <<>>, future |-> NoFuture,
     invoked |-> 0, raised |-> <<>>, result |-> NoResult, doneAt |-> 0]

\* A call that has returned to its caller, the doneAt-th call to return:
\* what it was given, where it raised (if it did) and what it returned.
Finish(input, raised, result) ==
    [IdleTask EXCEPT !.pc = "done", !.input = input, !.raised = raised,
                     !.result = result,
                     !.doneAt = 1 + Cardinality({r \in Calls : tasks[r].pc = "done"})]

SetHeap(H) ==
    /\ conversation_history' = H.conversation_history
    /\ entries' = H.entries
    /\ lists' = H.lists
    /\ dicts' = H.dicts
    /\ crews' = H.crews

\* call, from its entry to its first await or its return (lines 91-117 and
\* the except branch): one step of the event loop.
call(s) ==
    /\ tasks[s].pc = "idle"
    /\ \A r \in 1..(s - 1) : tasks[r].pc # "idle"
    /\ \E input \in Inputs, fault \in Faults :
          /\ FaultApplies(fault, input)
          /\ IF fault = "construct"
             THEN /\ SetHeap(ConstructorRaised(Heap, input.thread_id))
                  /\ tasks' = [tasks EXCEPT ![s] =
                                  Finish(input, <<"construct">>, Caught(ConstructError))]
             ELSE LET H1 == _get_or_create_crew(Heap, input.thread_id)
                      thread_context == H1.conversation_history[input.thread_id]
                      crew == H1.entries[thread_context].crew
                      user_message == LastNewUserMessage(input)
                      customer_id == _extract_customer_id(input.messages)
                      H2 == Extend(H1, thread_context, input.new_messages)
                  IN  IF fault = "extract"
                      THEN /\ SetHeap(H1)
                           /\ tasks' = [tasks EXCEPT ![s] =
                                  Finish(input, <<"extract">>, Caught(ExtractError))]
                      ELSE IF ~IsJudgment(input)
                      THEN /\ SetHeap(H2)
                           /\ tasks' = [tasks EXCEPT ![s] =
                                  [IdleTask EXCEPT
                                      !.pc = "awaiting", !.input = input, !.crew = crew,
                                      !.thread_context = thread_context,
                                      !.user_message = user_message,
                                      !.customer_id = customer_id,
                                      !.future = [state |-> "pending", value |-> <<>>]]]
                      ELSE IF fault = "crew_info"
                      THEN /\ SetHeap(H2)
                           /\ tasks' = [tasks EXCEPT ![s] =
                                  Finish(input, <<"judgment">>, Caught(InfoError))]
                      ELSE /\ SetHeap(H2)
                           /\ tasks' = [tasks EXCEPT ![s] =
                                  Finish(input, <<>>,
                                         Returned("summary", <<>>,
                                             _handle_judgment_request(H2, input, thread_context)))]
    /\ UNCHANGED pureVars

\* crew.handle_inquiry(user_message, customer_id) on the executor's worker
\* thread: the responder runs once and its outcome completes the future.
handle_inquiry(s) ==
    /\ tasks[s].pc = "awaiting"
    /\ tasks[s].future.state = "pending"
    /\ \E outcome \in [state : {"returned"}, value : Replies]
                      \cup {[state |-> "raised", value |-> ResponderError]} :
          tasks' = [tasks EXCEPT ![s].future = outcome, ![s].invoked = @ + 1]
    /\ crews' = [crews EXCEPT ![tasks[s].crew] = @ + 1]
    /\ UNCHANGED <<conversation_history, entries, lists, dicts>>
    /\ UNCHANGED pureVars

\* formatted_response = self._format_crew_response(response), for each
\* string the responder can return.
FormattedReplies == [response \in {r \in Replies : IsStr(r)} |-> _format_crew_response(response)]

\* An await that is resumed by a result only, never by an exception.
AwaitResult(future) == future.state = "returned"

\* await loop.run_in_executor(...): the coroutine is resumed when the future
\* has a result or an exception, and not before.
AwaitDone(future) == future.state \in {"returned", "raised"}

\* call, resumed after the await (lines 119-131): one step of the event loop.
call_resume(s) ==
    LET task == tasks[s]
    IN  /\ task.pc = "awaiting"
        /\ AwaitDone(task.future)
        /\ IF task.future.state = "raised"
           THEN /\ tasks' = [tasks EXCEPT ![s] =
                       [Finish(task.input, <<"responder">>, Caught(task.future.value))
                           EXCEPT !.invoked = task.invoked]]
                /\ UNCHANGED <<conversation_history, entries, lists, dicts, crews>>
           ELSE IF ~IsStr(task.future.value)
           THEN /\ tasks' = [tasks EXCEPT ![s] =
                       [Finish(task.input, <<"cleaner">>, Caught(CleanerError))
                           EXCEPT !.invoked = task.invoked]]
                /\ UNCHANGED <<conversation_history, entries, lists, dicts, crews>>
           ELSE LET formatted_response == FormattedReplies[task.future.value]
                    H1 == SetContext(Heap, task.thread_context, "last_response",
                                     formatted_response)
                    H2 == SetContext(H1, task.thread_context, "customer_id",
                                     task.customer_id)
                IN  /\ SetHeap(H2)
                    /\ tasks' = [tasks EXCEPT ![s] =
                           [Finish(task.input, <<>>,
                                   Returned("reply", formatted_response, NoSummary))
                               EXCEPT !.invoked = task.invoked]]
        /\ UNCHANGED pureVars

Init ==
    /\ conversation_history = <<>>
    /\ entries = <<>>
    /\ lists = <<>>
    /\ dicts = <<>>
    /\ crews = <<>>
    /\ tasks = [s \in Calls |-> IdleTask]
    /\ fn = "call"
    /\ arg = <<>>
    /\ out = <<>>
    /\ judges = NewJudges
    /\ runner = NoRunner

Next ==
    \E s \in Calls : call(s) \/ handle_inquiry(s) \/ call_resume(s)

Spec == Init /\ [][Next]_vars

-----------------------------------------------------------------------------
(* Claims about CrewAIAdapter.call, read off the record of calls *)

Made(s) == tasks[s].pc # "idle"

Done(s) == tasks[s].pc = "done"

ThreadOf(s) == tasks[s].input.thread_id

Judgment(s) == tasks[s].input.judgment_request

\* The call raised before it reached the responder or the stored list: in
\* the constructor of the crew class or in the extraction of the new user
\* message.
FailedEarly(s) == tasks[s].raised = <<"construct">> \/ tasks[s].raised = <<"extract">>

\* str(e) of the exception raised at a site.
ErrorAt(site) ==
    CASE site = "construct" -> ConstructError
      [] site = "extract"   -> ExtractError
      [] site = "judgment"  -> InfoError
      [] site = "responder" -> ResponderError
      [] site = "cleaner"   -> CleanerError

HasState(t) == t \in DOMAIN conversation_history

EntryOf(t) == entries[conversation_history[t]]

\* The stored message list of a thread id (empty when it has no state).
Stored(t) == IF HasState(t) THEN lists[EntryOf(t).messages] ELSE <<>>

\* The stored context of a thread id (empty when it has no state).
StoredContext(t) == IF HasState(t) THEN dicts[EntryOf(t).context] ELSE <<>>

RECURSIVE NewMessagesFrom(_, _, _)
\* The new_messages of the calls s, s+1, ... made on thread id t, in call
\* order: of all of them, or only of those that did not fail early.
NewMessagesFrom(s, t, all) ==
    IF s > MaxCalls THEN <<>>
    ELSE (IF Made(s) /\ ThreadOf(s) = t /\ (all \/ ~FailedEarly(s))
          THEN tasks[s].input.new_messages ELSE <<>>)
         \o NewMessagesFrom(s + 1, t, all)

\* C1 as claimed: a returned judgment call has invoked the responder zero
\* times and a returned conversational call exactly once.
C1_ResponderOncePerTurn ==
    \A s \in Calls : Done(s) => tasks[s].invoked = (IF Judgment(s) THEN 0 ELSE 1)

\* C1 amended: a returned judgment call has invoked the responder zero times;
\* a returned conversational call exactly once, or zero times when it failed
\* early (the constructor or the user-message extraction raised); no call
\* ever invokes it twice, also not after a failed invocation; and every
\* responder instance was invoked once per such call on its thread id.
C1_ResponderOnceUnlessEarlyFailure ==
    /\ \A s \in Calls :
          /\ tasks[s].invoked <= 1
          /\ Done(s) =>
                tasks[s].invoked = (IF Judgment(s) \/ FailedEarly(s) THEN 0 ELSE 1)
    /\ \A t \in ThreadIds : HasState(t) =>
          crews[EntryOf(t).crew] =
              Cardinality({s \in Calls : Made(s) /\ ThreadOf(s) = t /\ tasks[s].invoked = 1})

\* C1 witness: a judgment call and a conversational call whose responder
\* raised have both returned, with the same messages.
C1_Witness ==
    \E s, r \in Calls :
        /\ Done(s) /\ Judgment(s) /\ tasks[s].result.kind = "summary"
        /\ Done(r) /\ ~Judgment(r) /\ tasks[r].raised = <<"responder">>
        /\ tasks[s].input.messages = tasks[r].input.messages
        /\ tasks[s].invoked = 0 /\ tasks[r].invoked = 1

\* C2: no call lets an exception through to its caller, and a call in which
\* the constructor, the extraction, the responder, the cleaner or the
\* judgment handling raised returns the apology with the error text in it.
C2_NeverPropagates ==
    \A s \in Calls : Done(s) =>
        /\ tasks[s].result.kind \in {"reply", "summary", "apology"}
        /\ tasks[s].raised # <<>> =>
              /\ tasks[s].result.kind = "apology"
              /\ tasks[s].result.text = ApologyText(ErrorAt(tasks[s].raised[1]))

\* C2 witness: one call returned the apology for a reply the cleaner could
\* not split, another the apology for a failed judgment summary.
C2_Witness ==
    \E s, r \in Calls :
        /\ Done(s) /\ tasks[s].raised = <<"cleaner">>
        /\ tasks[s].result.text = ApologyText(CleanerError)
        /\ Done(r) /\ tasks[r].raised = <<"judgment">>
        /\ tasks[r].result.text = ApologyText(InfoError)

\* C3 as claimed: the stored message list of a thread id is the
\* concatenation, in call order, of the new_messages of every call made on
\* that thread id.
C3_StoredIsAllNewMessages ==
    \A t \in ThreadIds : Stored(t) = NewMessagesFrom(1, t, TRUE)

\* C3 amended: it is the concatenation, in call order, of the new_messages
\* of every call made on that thread id that did not fail early, whether a
\* conversational turn, a judgment request or a turn whose responder failed.
C3_StoredIsNewMessagesOfAppendingCalls ==
    \A t \in ThreadIds : Stored(t) = NewMessagesFrom(1, t, FALSE)

\* C3 witness: two one-message turns on t1, the second one's responder
\* raised; the list of t1 holds both messages in call order, t2 has none.
C3_Witness ==
    /\ ThreadOf(1) = "t1" /\ ThreadOf(2) = "t1"
    /\ Done(1) /\ Done(2) /\ tasks[2].raised = <<"responder">>
    /\ tasks[1].input.new_messages = <<Hello>>
    /\ tasks[2].input.new_messages = <<WithId>>
    /\ Stored("t1") = <<Hello, WithId>>
    /\ ~HasState("t2")

\* The objects of two thread ids are different objects.
NothingShared ==
    \A t, u \in ThreadIds : (t # u /\ HasState(t) /\ HasState(u)) =>
        /\ conversation_history[t] # conversation_history[u]
        /\ EntryOf(t).crew # EntryOf(u).crew
        /\ EntryOf(t).messages # EntryOf(u).messages
        /\ EntryOf(t).context # EntryOf(u).context

\* One responder instance, one list and one dict were ever made per thread
\* id that has state, and every call in flight holds its thread's instance.
OneInstancePerThread ==
    /\ Len(entries) = Cardinality(DOMAIN conversation_history)
    /\ Len(crews) = Len(entries) /\ Len(lists) = Len(entries) /\ Len(dicts) = Len(entries)
    /\ \A s \in Calls : tasks[s].pc = "awaiting" =>
          /\ HasState(ThreadOf(s))
          /\ tasks[s].thread_context = conversation_history[ThreadOf(s)]
          /\ tasks[s].crew = EntryOf(ThreadOf(s)).crew

\* An entry, once there, stays and refers to the same three objects.
EntryKept ==
    \A t \in ThreadIds : HasState(t) =>
        /\ t \in DOMAIN conversation_history'
        /\ conversation_history'[t] = conversation_history[t]
        /\ entries'[conversation_history[t]] = entries[conversation_history[t]]

\* C4 as claimed: the thread state is created exactly once, by the first
\* call on that id, is used by every later call, is never removed or
\* replaced, and shares nothing with the state of another thread id.
C4_CreatedByFirstCall ==
    /\ \A t \in ThreadIds : (\E s \in Calls : Made(s) /\ ThreadOf(s) = t) => HasState(t)
    /\ OneInstancePerThread
    /\ NothingShared

\* C4 amended: the thread state is created exactly once, by the first call
\* on that id whose constructor does not raise (a thread id has state exactly
\* when such a call was made); it is used by every later call, is never
\* removed or replaced, and shares nothing with the state of another id.
C4_CreatedOnceByFirstConstruction ==
    /\ [](/\ \A t \in ThreadIds :
               HasState(t) <=> \E s \in Calls : /\ Made(s) /\ ThreadOf(s) = t
                                                /\ tasks[s].raised # <<"construct">>
           /\ OneInstancePerThread
           /\ NothingShared)
    /\ [][EntryKept]_vars

\* C4 witness: the constructor raised in the first call on t1, the second
\* call on t1 created the state and is in flight with the instance.
C4_Witness ==
    /\ ThreadOf(1) = "t1" /\ tasks[1].raised = <<"construct">>
    /\ ThreadOf(2) = "t1" /\ tasks[2].pc = "awaiting"
    /\ HasState("t1")
    /\ tasks[2].crew = EntryOf("t1").crew
    /\ Len(crews) = 1

\* The successful conversational turns on thread id t that returned before
\* the k-th return.
TurnsBefore(t, k) ==
    {r \in Calls : /\ Done(r) /\ ThreadOf(r) = t /\ ~Judgment(r)
                   /\ tasks[r].result.kind = "reply" /\ tasks[r].doneAt < k}

\* The most recently returned of a non-empty set of returned calls.
Latest(turns) == CHOOSE r \in turns : \A q \in turns : tasks[q].doneAt <= tasks[r].doneAt

View(t) ==
    IF HasState(t)
    THEN <<TRUE, Stored(t), StoredContext(t), EntryOf(t).crew, crews[EntryOf(t).crew]>>
    ELSE <<FALSE, <<>>, <<>>, 0, 0>>

\* The context a thread id's own turns leave behind, run alone.
OwnContext(t) ==
    LET turns == TurnsBefore(t, MaxCalls + 1)
    IN  IF turns = {} THEN <<>>
        ELSE ("last_response" :> tasks[Latest(turns)].result.text)
             @@ ("customer_id" :> _extract_customer_id(tasks[Latest(turns)].input.messages))

\* A step of a call on one thread id leaves every other thread id's state as
\* it was.
OthersUntouched ==
    \A s \in Calls : tasks'[s] # tasks[s] =>
        \A u \in ThreadIds \ {tasks'[s].input.thread_id} : View(u)' = View(u)

\* C6: in every interleaving of calls, no step of a call on one thread id
\* changes the stored messages, context or responder of another, and the
\* state of each thread id is what its own calls alone produce.
C6_ThreadsIndependent ==
    /\ [][OthersUntouched]_vars
    /\ [](\A t \in ThreadIds :
            /\ Stored(t) = NewMessagesFrom(1, t, FALSE)
            /\ StoredContext(t) = OwnContext(t)
            /\ HasState(t) =>
                  crews[EntryOf(t).crew] =
                      Cardinality({s \in Calls : /\ Made(s) /\ ThreadOf(s) = t
                                                 /\ tasks[s].invoked = 1}))

\* C6 witness: while the turn on t1 waits for its responder, a turn on t2
\* started after it has already returned its reply; t1 holds one message
\* and no context, t2 its own message and context.
C6_Witness ==
    /\ ThreadOf(1) = "t1" /\ tasks[1].pc = "awaiting"
    /\ ThreadOf(2) = "t2" /\ Done(2) /\ tasks[2].result.kind = "reply"
    /\ Stored("t1") = <<Hello>> /\ StoredContext("t1") = <<>>
    /\ Stored("t2") = <<WithId>> /\ DOMAIN StoredContext("t2") # {}

\* The event loop resumes a coroutine whose awaited future is done; nothing
\* obliges the responder on the worker thread to finish.
SpecLive == Spec /\ \A s \in Calls : WF_vars(call_resume(s))

Pending(s) == tasks[s].pc = "awaiting" /\ tasks[s].future.state = "pending"

Resolved(s) == tasks[s].pc = "awaiting" /\ tasks[s].future.state \in {"returned", "raised"}

\* A call whose responder invocation is pending is still waiting after any
\* step.
PendingStaysPending == \A s \in Calls : Pending(s) => Pending(s)' \/ Resolved(s)'

\* C19: while the responder invocation of a turn is pending, the next call
\* can start, whatever its thread id; a turn whose responder invocation has
\* not returned does not complete, by no step of any call; and every turn
\* whose responder invocation returned or raised completes.
C19_PendingBlocksOnlyItsOwnTurn ==
    /\ [](\A s \in Calls : Pending(s) /\ s < MaxCalls /\ ~Made(s + 1) => ENABLED call(s + 1))
    /\ [][PendingStaysPending]_vars
    /\ \A s \in Calls : Resolved(s) ~> Done(s)

\* C19 witness: the responder of the turn on t1 has not been run, and a
\* turn on t2 that started later has run its responder and returned.
C19_Witness ==
    /\ Pending(1) /\ ThreadOf(1) = "t1" /\ tasks[1].invoked = 0
    /\ Done(2) /\ ThreadOf(2) = "t2" /\ ~Judgment(2)
    /\ tasks[2].invoked = 1 /\ tasks[2].doneAt = 1

\* The turn s failed in its responder invocation.
ResponderRaised(s) == Done(s) /\ tasks[s].raised = <<"responder">>

\* xs occurs in ys as a run of consecutive elements.
OccursIn(xs, ys) ==
    \E k \in 0..(Len(ys) - Len(xs)) : SubSeq(ys, k + 1, k + Len(xs)) = xs

\* What each step of a turn that fails in its responder does to the state of
\* its thread id: the start appends the new messages, the responder's
\* exception and the return of the apology change nothing.
FailedTurnStep ==
    \A s \in Calls, t \in ThreadIds :
        tasks'[s].pc # "idle" /\ tasks'[s].input.thread_id = t =>
            /\ tasks[s].pc = "idle" /\ tasks'[s].pc = "awaiting" =>
                  /\ StoredContext(t)' = StoredContext(t)
                  /\ Stored(t)' = Stored(t) \o tasks'[s].input.new_messages
            /\ Pending(s) /\ tasks'[s].future.state = "raised" =>
                  /\ StoredContext(t)' = StoredContext(t)
                  /\ Stored(t)' = Stored(t)
            /\ ~Done(s) /\ ResponderRaised(s)' =>
                  /\ StoredContext(t)' = StoredContext(t)
                  /\ Stored(t)' = Stored(t)

\* C20: a conversational turn whose responder invocation raises writes
\* nothing to the stored context of its thread id, at any of its steps, so
\* the context is as it was before the turn (that of the latest turn that
\* replied, or empty); its new messages are appended when it starts and are
\* still in the stored list after it has returned.
C20_FailedTurnKeepsContextAndMessages ==
    /\ [][FailedTurnStep]_vars
    /\ [](\A s \in Calls : ResponderRaised(s) =>
             /\ OccursIn(tasks[s].input.new_messages, Stored(ThreadOf(s)))
             /\ StoredContext(ThreadOf(s)) = OwnContext(ThreadOf(s)))

\* C20 witness: on t1 the first turn was answered and the second failed in
\* its responder; the context is still the first turn's, and the stored
\* list holds the messages of both.
C20_Witness ==
    /\ ThreadOf(1) = "t1" /\ Done(1) /\ tasks[1].result.kind = "reply" /\ tasks[1].doneAt = 1
    /\ ThreadOf(2) = "t1" /\ ResponderRaised(2) /\ tasks[2].invoked = 1
    /\ StoredContext("t1")["last_response"] = tasks[1].result.text
    /\ Stored("t1") = tasks[1].input.new_messages \o tasks[2].input.new_messages
    /\ tasks[2].input.new_messages # <<>>

\* What a step of a judgment request on thread id t may do: nothing to the
\* context; to the stored list, append its new messages (always, unless the
\* call failed in the constructor or in the user-message extraction); to the
\* thread state, create it with a responder instance no one has yet when t
\* had none; nothing to the state of any other thread id.
JudgmentStep ==
    \A s \in Calls, t \in ThreadIds :
        /\ tasks'[s] # tasks[s]
        /\ tasks'[s].input.judgment_request
        /\ tasks'[s].input.thread_id = t
        => /\ StoredContext(t)' = StoredContext(t)
           /\ Stored(t)' \in {Stored(t), Stored(t) \o tasks'[s].input.new_messages}
           /\ tasks'[s].raised \in {<<>>, <<"judgment">>} =>
                 /\ tasks'[s].pc = "done"
                 /\ Stored(t)' = Stored(t) \o tasks'[s].input.new_messages
           /\ tasks'[s].invoked = 0
           /\ IF HasState(t)
              THEN /\ conversation_history' = conversation_history
                   /\ entries' = entries
                   /\ crews' = crews
              ELSE \/ /\ conversation_history' = conversation_history
                      /\ entries' = entries
                      /\ crews' = crews
                      /\ tasks'[s].raised = <<"construct">>
                   \/ /\ DOMAIN conversation_history' = DOMAIN conversation_history \cup {t}
                      /\ Len(entries') = Len(entries) + 1
                      /\ crews' = Append(crews, 0)
                      /\ EntryOf(t)'.crew = Len(crews')
           /\ \A u \in ThreadIds \ {t} : View(u)' = View(u)

\* C21: no step of a judgment request changes the stored context of its
\* thread id; all it changes is the stored list, to which it appends its
\* new messages, and, on the first call for the thread id, the thread state
\* it creates with a new responder instance.
C21_JudgmentChangesOnlyListAndNewState == [][JudgmentStep]_vars

\* C21 witness: a judgment request was the first call on t1; it returned its
\* summary, t1 has a state with a responder never invoked, the stored list
\* holds its new messages and the context is empty.
C21_Witness ==
    /\ Done(1) /\ Judgment(1) /\ ThreadOf(1) = "t1"
    /\ tasks[1].result.kind = "summary"
    /\ tasks[2].pc = "idle"
    /\ HasState("t1") /\ crews = <<0>>
    /\ Stored("t1") = tasks[1].input.new_messages /\ Stored("t1") # <<>>
    /\ StoredContext("t1") = <<>>

\* The call got as far as its await: it is waiting for its responder, or it
\* has returned after the responder was run.
ReachedAwait(s) ==
    \/ tasks[s].pc = "awaiting"
    \/ Done(s) /\ ~Judgment(s) /\ ~FailedEarly(s)

\* xs and then ys occur in zs, as two runs that do not overlap.
OccurInOrder(xs, ys, zs) ==
    \E k \in 0..(Len(zs) - Len(xs)) :
        /\ SubSeq(zs, k + 1, k + Len(xs)) = xs
        /\ OccursIn(ys, SubSeq(zs, k + Len(xs) + 1, Len(zs)))

\* C22: of two calls on one thread id that both got to their await, the
\* later one found the entry the earlier one left: both hold the same
\* responder instance while they wait, as many instances, lists and dicts
\* were ever made as there are thread ids with state, and the new messages of
\* both are in the stored list, in call order, from the moment the later one
\* waits, also after both have returned.
C22_ConcurrentFirstCallsShareOneState ==
    /\ Len(entries) = Cardinality(DOMAIN conversation_history)
    /\ Len(crews) = Len(entries)
    /\ \A s, r \in Calls :
          (s < r /\ ReachedAwait(s) /\ ReachedAwait(r) /\ ThreadOf(s) = ThreadOf(r)) =>
              /\ HasState(ThreadOf(s))
              /\ (tasks[s].pc = "awaiting" /\ tasks[r].pc = "awaiting") =>
                     /\ tasks[s].crew = tasks[r].crew
                     /\ tasks[s].thread_context = tasks[r].thread_context
                     /\ tasks[s].crew = EntryOf(ThreadOf(s)).crew
              /\ OccurInOrder(tasks[s].input.new_messages, tasks[r].input.new_messages,
                              Stored(ThreadOf(s)))

\* C22 witness: the first two calls were both on the unseen thread id t1 and
\* overlapped (the second returned before the first); one responder
\* instance exists and was run twice, and the stored list holds the new
\* messages of both.
C22_Witness ==
    /\ ThreadOf(1) = "t1" /\ ThreadOf(2) = "t1"
    /\ Done(1) /\ Done(2) /\ tasks[2].doneAt = 1 /\ tasks[1].doneAt = 2
    /\ tasks[1].result.kind = "reply" /\ tasks[2].result.kind = "reply"
    /\ DOMAIN conversation_history = {"t1"} /\ crews = <<2>>
    /\ Stored("t1") = tasks[1].input.new_messages \o tasks[2].input.new_messages

\* The step in which call s is made on a thread id t without state: the
\* constructor is run, and either it raises and nothing is stored or the
\* state of t is made with a responder instance no one has yet.
ConstructionAttempted ==
    \A s \in Calls, t \in ThreadIds :
        (tasks[s].pc = "idle" /\ tasks'[s].pc # "idle" /\ tasks'[s].input.thread_id = t
            /\ ~HasState(t)) =>
            \/ /\ tasks'[s].raised = <<"construct">>
               /\ tasks'[s].pc = "done"
               /\ tasks'[s].result = Caught(ConstructError)
               /\ ~HasState(t)'
               /\ <<conversation_history, entries, lists, dicts, crews>>'
                      = <<conversation_history, entries, lists, dicts, crews>>
            \/ /\ tasks'[s].raised # <<"construct">>
               /\ HasState(t)'
               /\ crews' = Append(crews, 0)
               /\ EntryOf(t)'.crew = Len(crews')

\* C24: a call whose responder construction raises returns the apology and
\* leaves no state for its thread id, and every call made on a thread id
\* without state runs the constructor again: it fails in the same way or
\* makes the state.
C24_FailedConstructionLeavesNoEntry ==
    /\ [][ConstructionAttempted]_vars
    /\ [](\A s \in Calls :
            (Done(s) /\ tasks[s].raised = <<"construct">>) =>
                /\ tasks[s].result.kind = "apology"
                /\ tasks[s].result.text = ApologyText(ConstructError)
                /\ tasks[s].invoked = 0
                /\ (\A r \in Calls : r # s /\ Made(r) /\ ThreadOf(r) = ThreadOf(s)
                                       => tasks[r].raised = <<"construct">>)
                      => ~HasState(ThreadOf(s)))

\* C24 witness: the constructor raised in the first call on t1, which
\* returned the apology; the second call on t1 ran the constructor again,
\* got its responder and a reply from it.
C24_Witness ==
    /\ ThreadOf(1) = "t1" /\ Done(1) /\ tasks[1].raised = <<"construct">>
    /\ tasks[1].result.kind = "apology" /\ tasks[1].doneAt = 1
    /\ ThreadOf(2) = "t1" /\ Done(2) /\ tasks[2].result.kind = "reply"
    /\ crews = <<1>> /\ Stored("t1") = tasks[2].input.new_messages

-----------------------------------------------------------------------------
(* The cleaner as a function of bounded raw replies *)

MaxRawLen == 5

CleanAlphabet == {"a", " ", "\n", "[", "#", "Agent:"}

RawReplies == SeqsUpTo(CleanAlphabet, MaxRawLen)

AdapterIdle ==
    /\ conversation_history = <<>>
    /\ entries = <<>>
    /\ lists = <<>>
    /\ dicts = <<>>
    /\ crews = <<>>
    /\ tasks = <<>>

InitClean ==
    /\ AdapterIdle
    /\ fn = "_format_crew_response"
    /\ arg \in RawReplies
    /\ out = <<>>
    /\ judges = NewJudges
    /\ runner = NoRunner

\* One application of the cleaner to the raw reply.
CleanOnce ==
    /\ fn = "_format_crew_response"
    /\ out = <<>>
    /\ out' = <<_format_crew_response(arg)>>
    /\ UNCHANGED <<fn, arg>>
    /\ UNCHANGED <<adapterVars, judges, runner>>

\* The cleaner applied to its own result.
CleanTwice ==
    /\ fn = "_format_crew_response"
    /\ Len(out) = 1
    /\ out' = Append(out, _format_crew_response(out[1]))
    /\ UNCHANGED <<fn, arg>>
    /\ UNCHANGED <<adapterVars, judges, runner>>

NextClean == CleanOnce \/ CleanTwice

SpecClean == InitClean /\ [][NextClean]_vars

\* The lines of a raw reply.
RawLines(raw) == LET ls == SplitOn(raw, "\n") IN {ls[i] : i \in 1..Len(ls)}

\* A line the cleaner discards, as the specification words it: it contains a
\* log marker (in any letter case), is blank, or starts with '[' or '##'.
Discarded(line) ==
    \/ \E i \in 1..Len(line) : LowerToken(line[i]) \in skip_phrases
    \/ \A i \in 1..Len(line) : line[i] \in Whitespace
    \/ (line # <<>> /\ line[1] = "[")
    \/ (Len(line) >= 2 /\ line[1] = "#" /\ line[2] = "#")

\* C7: the response cleaner is idempotent: cleaning the cleaned reply gives
\* the cleaned reply again, for every raw reply.
C7_CleanerIdempotent == Len(out) = 2 => out[2] = out[1]

\* C8: when every line of the raw reply is discarded, the cleaner returns the
\* raw reply unchanged; and it never returns the empty string for a
\* non-empty raw reply.
C8_FallbackToRaw ==
    Len(out) >= 1 =>
        /\ (\A line \in RawLines(arg) : Discarded(line)) => out[1] = arg
        /\ arg # <<>> => out[1] # <<>>

\* The raw lines that are not discarded, in order.
Survivors(raw) == SelectSeq(SplitOn(raw, "\n"), LAMBDA line : ~Discarded(line))

\* C26: when some line of the raw reply survives, the cleaned reply is the
\* surviving raw lines (no log marker in any letter case, not blank, not
\* starting with '[' or '##'), each trimmed, in their order, joined by
\* newlines.
C26_SurvivingLinesTrimmedInOrder ==
    (Len(out) >= 1 /\ Survivors(arg) # <<>>) =>
        out[1] = Join([i \in 1..Len(Survivors(arg)) |-> Strip(Survivors(arg)[i])], "\n")

\* C26 witness: of three raw lines the bracketed one in the middle was
\* dropped and the other two were kept in order.
C26_Witness ==
    /\ arg = <<"a", "\n", "[", "\n", "#">>
    /\ out = <<<<"a", "\n", "#">>>>

\* C8 witness: a two-line reply, a log line and a bracketed line, all of it
\* discarded, has been cleaned and came back as it was.
C8_Witness ==
    /\ Len(out) >= 1
    /\ Contains(arg, "Agent:") /\ Contains(arg, "\n") /\ Contains(arg, "[")
    /\ \A line \in RawLines(arg) : Discarded(line)
    /\ out[1] = arg

-----------------------------------------------------------------------------
(* Customer-id extraction as a function of bounded message lists *)

MaxConversationSize == 8

CustAlphabet == {" ", "Cust", "A7"}

\* The size of a message list: one per message and one per token of content.
RECURSIVE ConversationSize(_)
ConversationSize(messages) ==
    IF messages = <<>> THEN 0
    ELSE 1 + (IF IsStr(Head(messages).content) THEN Len(Head(messages).content) ELSE 0)
           + ConversationSize(Tail(messages))

\* Message contents: every text of at most n tokens, and a content that is
\* not a str.
CustContents(n) == SeqsUpTo(CustAlphabet, n) \cup {NoneValue}

InitCust ==
    /\ AdapterIdle
    /\ fn = "_extract_customer_id"
    /\ arg = <<>>
    /\ out = <<>>
    /\ judges = NewJudges
    /\ runner = NoRunner

\* One turn: the caller's message list has grown by one message and the
\* extraction runs over the whole list, as call does on every turn.
Extract ==
    /\ fn = "_extract_customer_id"
    /\ LET room == MaxConversationSize - ConversationSize(arg) - 1
       IN  /\ room >= 0
           /\ \E content \in CustContents(room) :
                 /\ arg' = Append(arg, [role |-> "user", content |-> content])
                 /\ out' = Append(out, _extract_customer_id(arg'))
    /\ UNCHANGED fn
    /\ UNCHANGED <<adapterVars, judges, runner>>

NextCust == Extract

SpecCust == InitCust /\ [][NextCust]_vars

\* The whitespace-separated tokens of message m, as written.
TokensOf(messages, m) ==
    IF IsStr(messages[m].content) THEN Words(messages[m].content) ELSE <<>>

\* A token holds 'cust' in some letter case.
IsCustToken(token) == \E i \in 1..Len(token) : LowerToken(token[i]) \in {"cust", "cust001"}

\* The places <<m, i>> of the tokens holding 'cust'.
CustPlaces(messages) ==
    UNION {{<<m, i>> : i \in {j \in 1..Len(TokensOf(messages, m)) :
                                  IsCustToken(TokensOf(messages, m)[j])}} :
           m \in 1..Len(messages)}

\* Those of them that have a next token in the same content.
FollowedPlaces(messages) ==
    {p \in CustPlaces(messages) : p[2] + 1 <= Len(TokensOf(messages, p[1]))}

\* The first place of a set, in message order and then token order.
FirstPlace(places) ==
    CHOOSE p \in places :
        \A q \in places : p[1] < q[1] \/ (p[1] = q[1] /\ p[2] <= q[2])

\* C23: in a conversation that grows by one message per turn, once a turn
\* has resolved a customer id other than the default, every later turn
\* resolves that same id.
C23_ResolvedIdIsKept ==
    \A i, j \in 1..Len(out) :
        (i < j /\ out[i] # DefaultCustomerId) => out[j] = out[i]

\* C23 witness: the first turn resolved 'a7'; the message of the second turn
\* names another id after a 'cust' token, and the second turn still
\* resolved 'a7'.
C23_Witness ==
    /\ Len(out) = 2 /\ Len(arg) = 2
    /\ out[1] = <<"a7">> /\ out[2] = <<"a7">>
    /\ arg[2].content = <<"Cust", " ", "Cust">>

\* C9 as claimed: 'CUST001' when no content has a token holding 'cust', and
\* otherwise the token that follows such a token (in either letter case).
C9_FollowingToken ==
    out # <<>> =>
        IF CustPlaces(arg) = {} THEN out[Len(out)] = DefaultCustomerId
        ELSE \E p \in FollowedPlaces(arg) :
                LET next == TokensOf(arg, p[1])[p[2] + 1]
                IN  out[Len(out)] = next \/ out[Len(out)] = Lower(next)

\* C9 amended: 'CUST001' when no content has a token holding 'cust' (in any
\* letter case) that is followed by another token; otherwise the lower-cased
\* token that follows the first such token.
C9_FollowingTokenIfAny ==
    out # <<>> =>
        IF FollowedPlaces(arg) = {} THEN out[Len(out)] = DefaultCustomerId
        ELSE LET p == FirstPlace(FollowedPlaces(arg))
             IN  out[Len(out)] = Lower(TokensOf(arg, p[1])[p[2] + 1])

\* C9 witness: the first message ends in a 'cust' token, the second has one
\* followed by an upper-case token, and the extraction returned that token
\* lower-cased.
C9_Witness ==
    /\ Len(arg) = 2
    /\ arg[1].content = <<"Cust">>
    /\ arg[2].content = <<"Cust", " ", "A7">>
    /\ out = <<DefaultCustomerId, <<"a7">>>>

-----------------------------------------------------------------------------
(* scenarios/judges/custom_judges.py: the heuristic judges.                *)
(* A score is held as a whole number of tenths: 5.0 is 50, 0.3 is 3.       *)
(* Words are tokens; a word that has a keyword inside it is split at the   *)
(* keyword ("authentication" holds "then", "double-check" holds "check").  *)

\* The text of a phrase: its words with one blank between them.
Phrase(words) == Join([i \in 1..Len(words) |-> <<words[i]>>], " ")

RECURSIVE JoinText(_, _)
\* sep.join(parts) for a separator of several characters.
JoinText(parts, sep) ==
    IF parts = <<>> THEN <<>>
    ELSE IF Len(parts) = 1 THEN parts[1]
    ELSE parts[1] \o sep \o JoinText(Tail(parts), sep)

\* "phrase in text"
In(phrase, text) ==
    \E i \in 0..(Len(text) - Len(phrase)) : \A k \in 1..Len(phrase) : text[i + k] = phrase[k]

\* How many entries of a keyword list occur in the conversation, letter case
\* ignored.
Hits(indicators, conversation) ==
    LET text == Lower(conversation)
    IN  Cardinality({i \in 1..Len(indicators) : In(Lower(indicators[i]), text)})

min(a, b) == IF a <= b THEN a ELSE b

max(a, b) == IF a >= b THEN a ELSE b

\* CustomerServiceQualityJudge._extract_conversation: user and assistant
\* messages only, labelled, with an empty line between them.
Quality_extract_conversation(messages) ==
    LET kept    == SelectSeq(messages, LAMBDA msg : msg.role \in {"user", "assistant"})
        part(m) == IF m.role = "user" THEN <<"CUSTOMER:", " ">> \o m.content
                   ELSE <<"AGENT:", " ">> \o m.content
    IN  JoinText([i \in 1..Len(kept) |-> part(kept[i])], <<"\n", "\n">>)

\* TechnicalAccuracyJudge._extract_conversation: every message as
\* "role: content", one per line.
Technical_extract_conversation(messages) ==
    JoinText([i \in 1..Len(messages) |->
                 <<messages[i].role \o ":", " ">> \o messages[i].content], <<"\n">>)

\* EscalationAppropriatenessJudge._extract_conversation: the same text.
Escalation_extract_conversation(messages) ==
    JoinText([i \in 1..Len(messages) |->
                 <<messages[i].role \o ":", " ">> \o messages[i].content], <<"\n">>)

empathy_indicators ==
    << <<"understand">>, <<"sorry">>, <<"apologize">>, <<"frustrating">>, <<"difficult">>,
       <<"appreciate">>, Phrase(<<"thank", "you">>), Phrase(<<"I", "can", "see">>),
       Phrase(<<"I", "realize">>) >>

_evaluate_empathy(conversation) ==
    min(100, 50 + 5 * Hits(empathy_indicators, conversation))

professional_indicators ==
    << <<"please">>, Phrase(<<"thank", "you">>), Phrase(<<"I'll", "help">>),
       Phrase(<<"let", "me">>), Phrase(<<"I", "can", "assist">>) >>

unprofessional_indicators ==
    << <<"whatever">>, Phrase(<<"I", "don't", "know">>), Phrase(<<"not", "my", "problem">>),
       Phrase(<<"can't", "help">>) >>

_evaluate_professionalism(conversation) ==
    max(10, min(100, 70 + 3 * Hits(professional_indicators, conversation)
                        - 10 * Hits(unprofessional_indicators, conversation)))

RECURSIVE AgentResponses(_, _)
\* re.findall(r'AGENT: (.+?)(?=CUSTOMER:|$)', conversation, re.DOTALL) from
\* position i on: each match starts after "AGENT: ", takes at least one
\* character and stops before the next "CUSTOMER:", or at the end of the
\* text (or before its final newline); the search goes on where it stopped.
AgentResponses(conversation, i) ==
    IF i + 1 > Len(conversation) THEN <<>>
    ELSE IF conversation[i] = "AGENT:" /\ conversation[i + 1] = " " /\ i + 2 <= Len(conversation)
    THEN LET start == i + 2
             stops == {j \in (start + 1)..(Len(conversation) + 1) :
                          \/ j = Len(conversation) + 1
                          \/ conversation[j] = "CUSTOMER:"
                          \/ j = Len(conversation) /\ conversation[j] = "\n"}
             stop  == CHOOSE j \in stops : \A k \in stops : j <= k
         IN  <<SubSeq(conversation, start, stop - 1)>> \o AgentResponses(conversation, stop)
    ELSE AgentResponses(conversation, i + 1)

RECURSIVE WordCount(_)
\* sum(len(response.split()) for response in agent_responses)
WordCount(agent_responses) ==
    IF agent_responses = <<>> THEN 0
    ELSE Len(Words(Head(agent_responses))) + WordCount(Tail(agent_responses))

\* The communication score with the bucket for very short and very long
\* replies scoring nothing.
CommunicationZeroBucket(conversation) ==
    LET agent_responses == AgentResponses(conversation, 1)
        n     == Len(agent_responses)
        total == WordCount(agent_responses)
    IN  IF n = 0 THEN 50
        ELSE IF 10 * n <= total /\ total <= 50 * n THEN 80
        ELSE IF (5 * n <= total /\ total < 10 * n) \/ (50 * n < total /\ total <= 100 * n)
        THEN 60
        ELSE 0

\* avg_length = total / n is compared through total and n.
_evaluate_communication(conversation) ==
    LET agent_responses == AgentResponses(conversation, 1)
        n     == Len(agent_responses)
        total == WordCount(agent_responses)
    IN  IF n = 0 THEN 50
        ELSE IF 10 * n <= total /\ total <= 50 * n THEN 80
        ELSE IF (5 * n <= total /\ total < 10 * n) \/ (50 * n < total /\ total <= 100 * n)
        THEN 60
        ELSE 40

listening_indicators ==
    << Phrase(<<"you", "mentioned">>), Phrase(<<"you", "said">>),
       Phrase(<<"I", "understand", "that">>), Phrase(<<"to", "clarify">>),
       Phrase(<<"let", "me", "make", "sure">>),
       Phrase(<<"if", "I", "understand", "correctly">>) >>

_evaluate_listening(conversation) ==
    min(100, 60 + 5 * Hits(listening_indicators, conversation))

problem_solving_indicators ==
    << Phrase(<<"let", "me", "check">>), Phrase(<<"I'll", "investigate">>),
       Phrase(<<"here's", "what", "we", "can", "do">>), <<"solution">>, <<"resolve">>,
       <<"fix">>, Phrase(<<"help", "you", "with">>) >>

_evaluate_problem_solving(conversation) ==
    min(100, 50 + 4 * Hits(problem_solving_indicators, conversation))

customer_focus_indicators ==
    << Phrase(<<"for", "you">>), Phrase(<<"your", "needs">>), Phrase(<<"your", "experience">>),
       Phrase(<<"your", "satisfaction">>), Phrase(<<"what", "works", "best">>),
       Phrase(<<"your", "preference">>) >>

_evaluate_customer_focus(conversation) ==
    min(100, 60 + 3 * Hits(customer_focus_indicators, conversation))

\* A mean cut off after the first decimal.
TruncatedMean(total) == total \div 3

\* round(total / 3, 1) for a sum of three scores, in tenths: a third of a
\* whole number is never half way between two tenths.
RoundedMean(total) == (2 * total + 3) \div 6

\* _generate_recommendation(score) for score = total / 3, the mean as it is
\* before rounding: score >= 8.0 is total >= 24.0, score >= 6.0 is
\* total >= 18.0.
_generate_recommendation(total) ==
    IF total >= 240
    THEN "Excellent customer service quality. Continue current approach."
    ELSE IF total >= 180
    THEN "Good customer service with room for improvement in empathy and communication."
    ELSE "Customer service quality needs significant improvement. Focus on empathy, professionalism, and problem-solving."

\* The scores and the recommendation of
\* CustomerServiceQualityJudge._generate_quality_evaluation.
_generate_quality_evaluation(conversation) ==
    LET empathy_score         == _evaluate_empathy(conversation)
        professionalism_score == _evaluate_professionalism(conversation)
        communication_score   == _evaluate_communication(conversation)
        total == empathy_score + professionalism_score + communication_score
    IN  [overall_score |-> RoundedMean(total),
         criterion_scores |->
            [empathy         |-> empathy_score,
             professionalism |-> professionalism_score,
             listening       |-> _evaluate_listening(conversation),
             communication   |-> communication_score,
             problem_solving |-> _evaluate_problem_solving(conversation),
             customer_focus  |-> _evaluate_customer_focus(conversation)],
         recommendation |-> _generate_recommendation(total)]

technical_terms ==
    << <<"API">>, <<"au", "then", "tication">>, <<"error">>, <<"code">>, <<"integration">>,
       <<"configuration">> >>

_evaluate_technical_accuracy(conversation) ==
    LET engaged  == 70 + 2 * Hits(technical_terms, conversation)
        mistaken == /\ In(Phrase(<<"restart", "your", "computer">>), Lower(conversation))
                    /\ In(<<"API">>, conversation)
    IN  max(10, min(100, IF mistaken THEN engaged - 20 ELSE engaged))

solution_indicators ==
    << Phrase(<<"step", "by", "step">>), <<"first">>, <<"then">>, <<"next">>, <<"finally">>,
       <<"check">>, <<"verify">>, <<"test">>, <<"try">> >>

_evaluate_solution_quality(conversation) ==
    min(100, 60 + 3 * Hits(solution_indicators, conversation))

clarity_indicators ==
    << Phrase(<<"here's", "how">>), Phrase(<<"follow", "these", "steps">>),
       Phrase(<<"you", "need", "to">>), Phrase(<<"make", "sure">>),
       Phrase(<<"ensure", "that">>), <<"double-", "check">> >>

_evaluate_guidance_clarity(conversation) ==
    min(100, 60 + 4 * Hits(clarity_indicators, conversation))

\* The three scores of TechnicalAccuracyJudge.call.
TechnicalEvaluation(conversation) ==
    [technical_accuracy_score |-> _evaluate_technical_accuracy(conversation),
     solution_quality_score   |-> _evaluate_solution_quality(conversation),
     guidance_clarity_score   |-> _evaluate_guidance_clarity(conversation)]

escalation_triggers ==
    << <<"manager">>, <<"supervisor">>, <<"escalate">>, Phrase(<<"higher", "level">>),
       <<"weeks">>, <<"months">>, <<"frustrated">>, <<"angry">>, <<"unacceptable">> >>

\* An assessment for which one trigger is enough to warrant an escalation.
AssessWarrantedByOne(conversation) ==
    LET text == Lower(conversation)
        triggers_found == SelectSeq(escalation_triggers, LAMBDA trigger : In(trigger, text))
    IN  [escalation_warranted |-> Len(triggers_found) >= 1,
         triggers_identified  |-> triggers_found,
         severity_level       |-> IF Len(triggers_found) >= 3 THEN "high"
                                  ELSE IF Len(triggers_found) >= 1 THEN "medium"
                                  ELSE "low"]

_assess_escalation_need(conversation) ==
    LET text == Lower(conversation)
        triggers_found == SelectSeq(escalation_triggers, LAMBDA trigger : In(trigger, text))
    IN  [escalation_warranted |-> Len(triggers_found) >= 2,
         triggers_identified  |-> triggers_found,
         severity_level       |-> IF Len(triggers_found) >= 3 THEN "high"
                                  ELSE IF Len(triggers_found) >= 1 THEN "medium"
                                  ELSE "low"]

\* str.count(word) for a word that is one token.
Count(text, word) == Cardinality({i \in 1..Len(text) : text[i] = word})

_evaluate_escalation_timing(conversation) ==
    IF In(<<"manager">>, Lower(conversation)) /\ In(<<"manager">>, conversation)
    THEN LET first == CHOOSE i \in 1..Len(conversation) :
                         /\ conversation[i] = "manager"
                         /\ \A j \in 1..(i - 1) : conversation[j] # "manager"
             pre_escalation    == SubSeq(conversation, 1, first - 1)
             interaction_count == Count(pre_escalation, "AGENT:")
         IN  IF interaction_count <= 2 THEN "Too early - should attempt resolution first"
             ELSE IF interaction_count <= 5 THEN "Appropriate timing"
             ELSE "Too late - should have escalated sooner"
    ELSE "No escalation occurred"

_evaluate_escalation_process(conversation) ==
    LET text      == Lower(conversation)
        has(word) == In(word, text)
    IN  [explanation_provided |-> has(<<"escalate">>) \/ has(<<"manager">>),
         expectations_set     |-> has(Phrase(<<"will", "contact">>)) \/ has(<<"within">>),
         information_gathered |-> has(<<"account">>) \/ has(<<"details">>),
         professional_handoff |-> has(<<"transfer">>) \/ has(<<"connect">>)]

_calculate_escalation_score(conversation) ==
    LET need_assessment == _assess_escalation_need(conversation)
        timing          == _evaluate_escalation_timing(conversation)
        process         == _evaluate_escalation_process(conversation)
        mentioned       == In(<<"manager">>, Lower(conversation))
        appropriateness ==
            IF need_assessment.escalation_warranted /\ mentioned THEN 20
            ELSE IF ~need_assessment.escalation_warranted /\ ~mentioned THEN 10
            ELSE 0
        timeliness ==
            IF timing = "Appropriate timing" THEN 10
            ELSE IF timing \in {"Too early - should attempt resolution first",
                                "Too late - should have escalated sooner"} THEN -10
            ELSE 0
        process_score == Cardinality({element \in DOMAIN process : process[element]})
    IN  max(10, min(100, 50 + appropriateness + timeliness + 5 * process_score))

\* The assessment of EscalationAppropriatenessJudge.call.
EscalationAnalysis(conversation) ==
    [escalation_needed  |-> _assess_escalation_need(conversation),
     escalation_timing  |-> _evaluate_escalation_timing(conversation),
     escalation_process |-> _evaluate_escalation_process(conversation),
     escalation_score   |-> _calculate_escalation_score(conversation)]

-----------------------------------------------------------------------------
(* The judges over bounded transcripts *)

MaxMessages == 2

Roles == {"user", "assistant", "system"}

Greeting == <<"hi">>

Caring ==
    Phrase(<<"I", "understand", "that", "you", "said", "it", "is", "frustrating", "and",
             "difficult", "sorry", "I", "apologize", "I", "appreciate", "it", "thank", "you",
             "I", "can", "see", "and", "I", "realize", "please", "let", "me", "check",
             "for", "you">>)

Dismissive ==
    Phrase(<<"whatever", "I", "don't", "know", "not", "my", "problem", "can't", "help">>)

Reboot == Phrase(<<"restart", "your", "computer", "to", "fix", "the", "API", "error">>)

Demand == Phrase(<<"get", "me", "your", "manager">>)

Handoff ==
    Phrase(<<"I", "escalate", "my", "manager", "will", "contact", "you", "within", "a", "day",
             "about", "your", "account", "I", "connect", "you">>)

Pasted == Phrase(<<"AGENT:", "hi", "AGENT:", "hi", "AGENT:", "hi">>)

Polite == Phrase(<<"please", "let", "me", "know", "how", "I", "can", "assist">>)

Titled == Phrase(<<"I", "am", "angry", "get", "me", "the", "Manager">>)

Contents == {Greeting, Caring, Dismissive, Reboot, Demand, Handoff, Pasted, Polite, Titled}

InitJudge ==
    /\ AdapterIdle
    /\ fn = "none"
    /\ arg = <<>>
    /\ out = <<>>
    /\ judges = NewJudges
    /\ runner = NoRunner

\* The scenario run adds one message to the transcript; a judge is then
\* asked for its verdict on the transcript as it stands.
AddMessage ==
    /\ Len(arg) < MaxMessages
    /\ \E role \in Roles, content \in Contents :
          arg' = Append(arg, [role |-> role, content |-> content])
    /\ fn' = "none"
    /\ out' = <<>>
    /\ UNCHANGED <<adapterVars, judges, runner>>

\* CustomerServiceQualityJudge.call(input) with input.messages = arg
QualityJudge_call ==
    /\ fn = "none"
    /\ fn' = "quality"
    /\ out' = <<_generate_quality_evaluation(Quality_extract_conversation(arg))>>
    /\ UNCHANGED arg
    /\ judges' = [judges EXCEPT !.quality = JudgeAfterCall(@)]
    /\ UNCHANGED <<adapterVars, runner>>

\* TechnicalAccuracyJudge.call(input) with input.messages = arg
TechnicalJudge_call ==
    /\ fn = "none"
    /\ fn' = "technical"
    /\ out' = <<TechnicalEvaluation(Technical_extract_conversation(arg))>>
    /\ UNCHANGED arg
    /\ judges' = [judges EXCEPT !.technical = JudgeAfterCall(@)]
    /\ UNCHANGED <<adapterVars, runner>>

\* EscalationAppropriatenessJudge.call(input) with input.messages = arg
EscalationJudge_call ==
    /\ fn = "none"
    /\ fn' = "escalation"
    /\ out' = <<EscalationAnalysis(Escalation_extract_conversation(arg))>>
    /\ UNCHANGED arg
    /\ judges' = [judges EXCEPT !.escalation = JudgeAfterCall(@)]
    /\ UNCHANGED <<adapterVars, runner>>

NextJudge == AddMessage \/ QualityJudge_call \/ TechnicalJudge_call \/ EscalationJudge_call

SpecJudge == InitJudge /\ [][NextJudge]_vars

\* The numeric sub-scores of the record a judge returned.
SubScores ==
    IF out = <<>> THEN {}
    ELSE CASE fn = "quality" ->
                {out[1].criterion_scores[k] : k \in DOMAIN out[1].criterion_scores}
           [] fn = "technical" -> {out[1][k] : k \in DOMAIN out[1]}
           [] fn = "escalation" -> {out[1].escalation_score}
           [] OTHER -> {}

\* C10: for every transcript, every numeric sub-score the quality, technical
\* and escalation judges produce lies between 1.0 and 10.0 inclusive.
C10_SubScoresInRange == \A score \in SubScores : 10 <= score /\ score <= 100

\* C10 witness: the escalation judge has scored a warranted, well-timed,
\* fully handled escalation at the top of the range, 10.0.
C10_Witness ==
    /\ fn = "escalation"
    /\ Len(arg) = MaxMessages
    /\ out # <<>>
    /\ out[1].escalation_timing = "Appropriate timing"
    /\ out[1].escalation_score = 100

-----------------------------------------------------------------------------
(* The escalation judge over conversations of several turns *)

MaxTurns == 7

InitTiming ==
    /\ AdapterIdle
    /\ fn = "none"
    /\ arg = <<>>
    /\ out = <<>>
    /\ judges = NewJudges
    /\ runner = NoRunner

\* The assistant answers.
AgentTurn ==
    /\ Len(arg) < MaxTurns
    /\ arg' = Append(arg, [role |-> "assistant", content |-> Greeting])
    /\ fn' = "none"
    /\ out' = <<>>
    /\ UNCHANGED <<adapterVars, judges, runner>>

\* The customer writes, asking for the manager or not.
CustomerTurn ==
    /\ Len(arg) < MaxTurns
    /\ \E content \in {Greeting, Demand} :
          arg' = Append(arg, [role |-> "user", content |-> content])
    /\ fn' = "none"
    /\ out' = <<>>
    /\ UNCHANGED <<adapterVars, judges, runner>>

NextTiming == AgentTurn \/ CustomerTurn \/ EscalationJudge_call

SpecTiming == InitTiming /\ [][NextTiming]_vars

\* The messages that mention 'manager'.
Mentions == {i \in 1..Len(arg) : In(<<"manager">>, arg[i].content)}

\* The number of assistant turns before the first mention of 'manager'.
AssistantTurnsBefore ==
    LET first == CHOOSE i \in Mentions : \A j \in Mentions : i <= j
    IN  Cardinality({i \in 1..(first - 1) : arg[i].role = "assistant"})

\* C11 as claimed: when the escalation judge evaluates a message list, one
\* assistant turn before the first mention of 'manager' gives 'Too early',
\* three give 'Appropriate timing', six give 'Too late'.
C11_TimingByAssistantTurns ==
    (fn = "escalation" /\ out # <<>> /\ Mentions # {}) =>
        /\ AssistantTurnsBefore = 1 =>
              out[1].escalation_timing = "Too early - should attempt resolution first"
        /\ AssistantTurnsBefore = 3 => out[1].escalation_timing = "Appropriate timing"
        /\ AssistantTurnsBefore = 6 =>
              out[1].escalation_timing = "Too late - should have escalated sooner"

\* C28: in every quality evaluation record, overall_score is the mean of the
\* empathy, professionalism and communication scores of the record, rounded
\* to one decimal (the tenth nearest to a third of their sum); listening,
\* problem_solving and customer_focus do not enter it.
C28_OverallIsRoundedMeanOfThree ==
    (fn = "quality" /\ Len(out) = 1) =>
        LET scores == out[1].criterion_scores
            total  == scores.empathy + scores.professionalism + scores.communication
        IN  /\ 3 * out[1].overall_score - total \in {-1, 0, 1}
            /\ DOMAIN scores = {"empathy", "professionalism", "listening",
                                "communication", "problem_solving", "customer_focus"}

\* C28 witness: a record with sub-scores 5.0, 7.9 and 5.0, whose mean
\* 5.966... is reported as 6.0, while the three other scores of the record
\* are not all 6.0.
C28_Witness ==
    /\ fn = "quality" /\ Len(out) = 1
    /\ out[1].criterion_scores.empathy = 50
    /\ out[1].criterion_scores.professionalism = 79
    /\ out[1].criterion_scores.communication = 50
    /\ out[1].overall_score = 60
    /\ \E k \in {"listening", "problem_solving", "customer_focus"} :
          out[1].criterion_scores[k] # 60

\* The triggers that occur in the transcript, in any letter case.
TriggersIn(conversation) ==
    {k \in 1..Len(escalation_triggers) : In(escalation_triggers[k], Lower(conversation))}

\* C29: in every escalation assessment with n distinct trigger keywords in
\* the transcript, escalation_warranted is true exactly when n >= 2 and
\* severity_level is 'high' for n >= 3, 'medium' for n = 1 or 2 and 'low' for
\* n = 0; a warranted escalation never has severity 'low'.
C29_WarrantedAndSeverityByTriggerCount ==
    (fn = "escalation" /\ Len(out) = 1) =>
        LET n    == Cardinality(TriggersIn(Escalation_extract_conversation(arg)))
            need == out[1].escalation_needed
        IN  /\ Len(need.triggers_identified) = n
            /\ need.escalation_warranted <=> n >= 2
            /\ need.severity_level = (CASE n >= 3 -> "high"
                                        [] n \in {1, 2} -> "medium"
                                        [] n = 0 -> "low")
            /\ need.escalation_warranted => need.severity_level # "low"

\* C29 witness: an assessment of a transcript with three triggers (manager,
\* escalate, angry): warranted, severity high.
C29_Witness ==
    /\ fn = "escalation" /\ Len(out) = 1
    /\ Len(out[1].escalation_needed.triggers_identified) = 3
    /\ out[1].escalation_needed.escalation_warranted
    /\ out[1].escalation_needed.severity_level = "high"

\* C27: in every escalation assessment the timing verdict is 'No escalation
\* occurred' exactly when the transcript does not mention 'manager' in any
\* letter case.
C27_NoEscalationIffNoManager ==
    (fn = "escalation" /\ Len(out) = 1) =>
        (out[1].escalation_timing = "No escalation occurred"
            <=> ~In(<<"manager">>, Lower(Escalation_extract_conversation(arg))))

\* C12 as claimed: in every quality evaluation record the recommendation is
\* the one the thresholds give for the overall_score of the same record:
\* 'Excellent' from 8.0, 'Good' from 6.0, 'needs significant improvement'
\* below.
C12_RecommendationMatchesReported ==
    (fn = "quality" /\ out # <<>>) =>
        out[1].recommendation =
            (IF out[1].overall_score >= 80
             THEN "Excellent customer service quality. Continue current approach."
             ELSE IF out[1].overall_score >= 60
             THEN "Good customer service with room for improvement in empathy and communication."
             ELSE "Customer service quality needs significant improvement. Focus on empathy, professionalism, and problem-solving.")

-----------------------------------------------------------------------------
(* The quality judge over replies of given lengths *)

MaxReplies == 3

\* The lengths, in words, of the messages tried: on both sides of the
\* thresholds 5 and 10.
WordCounts == {3, 6, 12}

\* A text of n words.
Filler(n) == Phrase([i \in 1..n |-> "word"])

InitComm ==
    /\ AdapterIdle
    /\ fn = "none"
    /\ arg = <<>>
    /\ out = <<>>
    /\ judges = NewJudges
    /\ runner = NoRunner

\* The customer or the assistant says something of some length.
Say ==
    /\ Len(arg) < MaxReplies
    /\ \E role \in {"user", "assistant"}, n \in WordCounts :
          arg' = Append(arg, [role |-> role, content |-> Filler(n)])
    /\ fn' = "none"
    /\ out' = <<>>
    /\ UNCHANGED <<adapterVars, judges, runner>>

NextComm == Say \/ QualityJudge_call

SpecComm == InitComm /\ [][NextComm]_vars

\* The assistant messages of the transcript.
AssistantMessages == SelectSeq(arg, LAMBDA msg : msg.role = "assistant")

RECURSIVE TotalWords(_)
TotalWords(messages) ==
    IF messages = <<>> THEN 0
    ELSE Len(Words(Head(messages).content)) + TotalWords(Tail(messages))

\* C13 as claimed: the communication score is a function of the mean word
\* count m of the assistant messages only: 8.0 when 10 <= m <= 50, 6.0 when
\* 5 <= m < 10 or 50 < m <= 100, 4.0 otherwise, and 5.0 when there is no
\* assistant message.
C13_CommunicationByMeanLength ==
    (fn = "quality" /\ out # <<>>) =>
        LET n     == Len(AssistantMessages)
            total == TotalWords(AssistantMessages)
        IN  out[1].criterion_scores.communication =
               (IF n = 0 THEN 50
                ELSE IF 10 * n <= total /\ total <= 50 * n THEN 80
                ELSE IF (5 * n <= total /\ total < 10 * n)
                        \/ (50 * n < total /\ total <= 100 * n) THEN 60
                ELSE 40)

-----------------------------------------------------------------------------
(* The same judges asked again and again *)

MaxEvaluations == 3

\* The message lists the judges are given.
Transcripts ==
    {<<>>,
     <<[role |-> "user", content |-> Demand]>>,
     <<[role |-> "user", content |-> Caring], [role |-> "assistant", content |-> Handoff]>>}

\* What the call of a judge returns for a message list.
Verdict(judge, messages) ==
    CASE judge = "quality" ->
            _generate_quality_evaluation(Quality_extract_conversation(messages))
      [] judge = "technical" ->
            TechnicalEvaluation(Technical_extract_conversation(messages))
      [] judge = "escalation" ->
            EscalationAnalysis(Escalation_extract_conversation(messages))

InitRepeat ==
    /\ AdapterIdle
    /\ fn = "none"
    /\ arg = <<>>
    /\ out = <<>>
    /\ judges = NewJudges
    /\ runner = NoRunner

\* One of the judges is called with one of the message lists; out keeps
\* every call and what it returned.
JudgeAgain ==
    /\ Len(out) < MaxEvaluations
    /\ \E judge \in DOMAIN judges, messages \in Transcripts :
          /\ fn' = judge
          /\ arg' = messages
          /\ out' = Append(out, [judge |-> judge, messages |-> messages,
                                  record |-> Verdict(judge, messages)])
          /\ judges' = [judges EXCEPT ![judge] = JudgeAfterCall(@)]
    /\ UNCHANGED <<adapterVars, runner>>

NextRepeat == JudgeAgain

SpecRepeat == InitRepeat /\ [][NextRepeat]_vars

-----------------------------------------------------------------------------
(* main.py: DemoRunner.run_basic_demo *)

test_inquiries ==
    <<"I can't log into my account", "I was charged twice for my subscription",
      "How do I integrate your API with my application?",
      "I want to cancel my subscription">>

\* f"CUST00{i}"
DemoCustomerId(i) == "CUST00" \o ToString(i)

\* A DemoRunner before a mode is run: self.crew is None (0) or the crew an
\* earlier mode made (1); rich is RICH_AVAILABLE.
NewRunner(crew, rich) ==
    [pc |-> "idle", crew |-> crew, rich |-> rich, i |-> 0, results |-> <<>>,
     conversation_history |-> <<>>, inputs |-> <<>>, invoked |-> <<>>,
     files |-> <<>>, raised |-> <<>>]

\* What self.crew.handle_inquiry does with an inquiry: a reply or an
\* exception.
Outcomes ==
    {[state |-> "returned", value |-> <<"a">>], [state |-> "returned", value |-> <<"b">>],
     [state |-> "raised", value |-> ResponderError]}

\* results.append({...}) after a reply.
Succeeded(r, inquiry, response) ==
    [r EXCEPT !.results = Append(@, [inquiry     |-> inquiry,
                                     response    |-> response,
                                     customer_id |-> DemoCustomerId(r.i),
                                     timestamp   |-> "now"]),
              !.i = @ + 1]

\* An except branch that gives up on the remaining inquiries.
FailedAndStopped(r, inquiry, e) ==
    [r EXCEPT !.results = Append(@, [inquiry     |-> inquiry,
                                     error       |-> <<"Error processing inquiry: ">> \o e,
                                     customer_id |-> DemoCustomerId(r.i),
                                     timestamp   |-> "now"]),
              !.i = Len(test_inquiries) + 1]

\* except Exception as e: results.append({...}), and the loop goes on.
Failed(r, inquiry, e) ==
    [r EXCEPT !.results = Append(@, [inquiry     |-> inquiry,
                                     error       |-> <<"Error processing inquiry: ">> \o e,
                                     customer_id |-> DemoCustomerId(r.i),
                                     timestamp   |-> "now"]),
              !.i = @ + 1]

InitDemo ==
    /\ AdapterIdle
    /\ fn = "none"
    /\ arg = <<>>
    /\ out = <<>>
    /\ judges = NewJudges
    /\ runner \in {NewRunner(crew, rich) : crew \in {0, 1}, rich \in BOOLEAN}

\* run_basic_demo up to its loop (lines 100-120).
run_basic_demo ==
    /\ runner.pc = "idle"
    /\ runner' = [runner EXCEPT !.pc = "loop", !.crew = 1, !.i = 1, !.results = <<>>]
    /\ UNCHANGED <<adapterVars, fn, arg, out, judges>>

\* One pass of the loop (lines 122-160): the inquiry goes to the responder,
\* on the executor when rich is there and directly when not.
basic_inquiry ==
    /\ runner.pc = "loop"
    /\ runner.i <= Len(test_inquiries)
    /\ \E outcome \in Outcomes :
          LET inquiry == test_inquiries[runner.i]
              called  == [runner EXCEPT !.invoked =
                             Append(@, [inquiry |-> inquiry,
                                        customer_id |-> DemoCustomerId(runner.i),
                                        outcome |-> outcome.state])]
          IN  runner' = IF outcome.state = "returned"
                        THEN Succeeded(called, inquiry, outcome.value)
                        ELSE Failed(called, inquiry, outcome.value)
    /\ UNCHANGED <<adapterVars, fn, arg, out, judges>>

\* After the loop (lines 162-174): the results are written out as one JSON
\* array and returned.
basic_return ==
    /\ runner.pc = "loop"
    /\ runner.i > Len(test_inquiries)
    /\ runner' = [runner EXCEPT !.pc = "returned", !.files = Append(@, runner.results)]
    /\ UNCHANGED <<adapterVars, fn, arg, out, judges>>

NextDemo == run_basic_demo \/ basic_inquiry \/ basic_return

SpecDemo == InitDemo /\ [][NextDemo]_vars

\* C15: whichever inquiries fail, the run goes through all four inquiries in
\* order, the i-th with customer id CUST00i, adds one record per inquiry
\* (inquiry/error/customer_id/timestamp when the responder raised,
\* inquiry/response/customer_id/timestamp when it replied), and returns
\* exactly these four records.
C15_FourRecordsWhateverFails ==
    /\ runner.pc = "loop" => Len(runner.results) = runner.i - 1
    /\ runner.pc = "returned" =>
          /\ Len(runner.results) = 4
          /\ runner.files = <<runner.results>>
    /\ runner.pc \in {"loop", "returned"} =>
          /\ Len(runner.invoked) = Len(runner.results)
          /\ \A k \in 1..Len(runner.results) :
                LET record == runner.results[k]
                IN  /\ record.inquiry = test_inquiries[k]
                    /\ record.customer_id = "CUST00" \o ToString(k)
                    /\ runner.invoked[k].inquiry = test_inquiries[k]
                    /\ runner.invoked[k].customer_id = record.customer_id
                    /\ DOMAIN record =
                          IF runner.invoked[k].outcome = "raised"
                          THEN {"inquiry", "error", "customer_id", "timestamp"}
                          ELSE {"inquiry", "response", "customer_id", "timestamp"}

\* C15 witness: the first two inquiries failed, the last two were still
\* answered, and the four records were returned.
C15_Witness ==
    /\ runner.pc = "returned"
    /\ Len(runner.results) = 4
    /\ "error" \in DOMAIN runner.results[1] /\ "error" \in DOMAIN runner.results[2]
    /\ "response" \in DOMAIN runner.results[3] /\ "response" \in DOMAIN runner.results[4]
    /\ runner.results[4].customer_id = "CUST004"

-----------------------------------------------------------------------------
(* main.py: DemoRunner.run_interactive_mode *)

MaxInputs == 3

\* Lines the user may type; user_input.lower() of each.
UserInputs == {"quit", "EXIT", "q", "help", "History", "clear", "hello", ""}

InputLower(text) ==
    CASE text = "EXIT"    -> "exit"
      [] text = "History" -> "history"
      [] OTHER            -> text

IsExit(text) == InputLower(text) \in {"quit", "exit", "q"}

IsCommand(text) == InputLower(text) \in {"help", "history", "clear"}

\* The parameters of _print(self, message, style=None).
_print_parameters == {"message", "style"}

\* What one event of the session was: a line typed (with, for an inquiry,
\* what the responder does when asked about it) or an exception of the read.
Typed(text, outcome) == [kind |-> "text", text |-> text, outcome |-> outcome]

ReadRaised(exception) == [kind |-> exception, text |-> "", outcome |-> "none"]

\* Lines 402-410: the transcript is written when it is not empty.
SaveAndReturn(r) ==
    [r EXCEPT !.pc = "returned",
              !.files = IF r.conversation_history # <<>>
                        THEN Append(@, r.conversation_history) ELSE @]

\* Lines 377-395: the turn on an inquiry.  self._print(..., end="") comes
\* first, outside the inner try; an argument _print does not take is a
\* TypeError, which neither except clause of the outer try catches.
Turn(r, text, outcome) ==
    IF ~ ({"message", "end"} \subseteq _print_parameters)
    THEN [r EXCEPT !.pc = "raised", !.raised = <<"TypeError">>]
    ELSE LET called == [r EXCEPT !.invoked =
                           Append(@, [inquiry |-> text,
                                      customer_id |-> "INTERACTIVE_USER",
                                      outcome |-> outcome.state])]
         IN  IF outcome.state = "returned"
             THEN [called EXCEPT !.conversation_history =
                      Append(@, [user |-> text, agent |-> outcome.value,
                                 timestamp |-> "now"])]
             ELSE called

InitInteractive == InitDemo

\* run_interactive_mode up to its loop (lines 341-355).
run_interactive_mode ==
    /\ runner.pc = "idle"
    /\ runner' = [runner EXCEPT !.pc = "reading", !.crew = 1, !.conversation_history = <<>>]
    /\ UNCHANGED <<adapterVars, fn, arg, out, judges>>

\* quit, exit or q in any case: break (lines 364-365), then the save.
read_exit ==
    /\ runner.pc = "reading"
    /\ Len(runner.inputs) < MaxInputs
    /\ \E text \in UserInputs :
          /\ IsExit(text)
          /\ runner' = SaveAndReturn([runner EXCEPT !.inputs = Append(@, Typed(text, "none"))])
    /\ UNCHANGED <<adapterVars, fn, arg, out, judges>>

\* Ctrl-C or end of input while reading: break (lines 397-400), then the save.
read_interrupted ==
    /\ runner.pc = "reading"
    /\ Len(runner.inputs) < MaxInputs
    /\ \E exception \in {"KeyboardInterrupt", "EOFError"} :
          runner' = SaveAndReturn([runner EXCEPT !.inputs = Append(@, ReadRaised(exception))])
    /\ UNCHANGED <<adapterVars, fn, arg, out, judges>>

\* A command that is also taken for an inquiry.
CommandForwarded(r, text) ==
    [r EXCEPT !.invoked = Append(@, [inquiry |-> text,
                                     customer_id |-> "INTERACTIVE_USER",
                                     outcome |-> "returned"]),
              !.conversation_history =
                  Append(@, [user |-> text, agent |-> <<"a">>, timestamp |-> "now"])]

\* Lines 366-375: help and history print, clear empties the list; none of
\* them reaches the call of the responder.
Command(r, text) ==
    [r EXCEPT !.conversation_history = IF InputLower(text) = "clear" THEN <<>> ELSE @]

\* help, history, clear (lines 366-375): continue.
read_command ==
    /\ runner.pc = "reading"
    /\ Len(runner.inputs) < MaxInputs
    /\ \E text \in UserInputs :
          /\ IsCommand(text)
          /\ runner' = Command([runner EXCEPT !.inputs = Append(@, Typed(text, "none"))], text)
    /\ UNCHANGED <<adapterVars, fn, arg, out, judges>>

\* Any other line (lines 377-395).
read_inquiry ==
    /\ runner.pc = "reading"
    /\ Len(runner.inputs) < MaxInputs
    /\ \E text \in UserInputs, outcome \in Outcomes :
          /\ ~ IsExit(text) /\ ~ IsCommand(text)
          /\ runner' = Turn([runner EXCEPT !.inputs = Append(@, Typed(text, outcome.state))],
                            text, outcome)
    /\ UNCHANGED <<adapterVars, fn, arg, out, judges>>

NextInteractive ==
    run_interactive_mode \/ read_exit \/ read_interrupted \/ read_command \/ read_inquiry

SpecInteractive == InitInteractive /\ [][NextInteractive]_vars

IsInquiry(event) == event.kind = "text" /\ ~ IsExit(event.text) /\ ~ IsCommand(event.text)

EndsSession(event) == event.kind # "text" \/ IsExit(event.text)

\* The inquiries typed after the last clear.
SinceClear(inputs) ==
    LET clears == {k \in 1..Len(inputs) : inputs[k].kind = "text" /\ InputLower(inputs[k].text) = "clear"}
        from   == IF clears = {} THEN 1 ELSE 1 + CHOOSE k \in clears : \A j \in clears : j <= k
    IN  SelectSeq(SubSeq(inputs, from, Len(inputs)), IsInquiry)

Answered(event) == event.outcome = "returned"

\* C16: in interactive mode a turn whose responder call raises does not end
\* the loop (the session goes on reading), and the failure is an entry of the
\* session transcript.
C16_FailedTurnRecordedAndLoopGoesOn ==
    \A k \in 1..Len(runner.inputs) :
        IsInquiry(runner.inputs[k]) /\ runner.inputs[k].outcome = "raised" =>
            /\ k = Len(runner.inputs) => runner.pc = "reading"
            /\ \A j \in k..Len(runner.inputs) : InputLower(runner.inputs[j].text) # "clear"
                  => \E n \in 1..Len(runner.conversation_history) :
                         runner.conversation_history[n].user = runner.inputs[k].text

\* C17: in interactive mode every input that is not a built-in command goes
\* to the responder exactly once, each reply adds one (user, agent, timestamp)
\* entry to the transcript, and the session ends only on an exit command, a
\* keyboard interrupt or end of input.
C17_InquiriesForwardedOnce ==
    LET inquiries == SelectSeq(runner.inputs, IsInquiry)
        answered  == SelectSeq(SinceClear(runner.inputs), Answered)
    IN  /\ Len(runner.invoked) = Len(inquiries)
        /\ \A k \in 1..Len(runner.invoked) : runner.invoked[k].inquiry = inquiries[k].text
        /\ Len(runner.conversation_history) = Len(answered)
        /\ \A k \in 1..Len(runner.conversation_history) :
              /\ DOMAIN runner.conversation_history[k] = {"user", "agent", "timestamp"}
              /\ runner.conversation_history[k].user = answered[k].text
        /\ runner.pc \in {"returned", "raised"} =>
              /\ runner.pc = "returned"
              /\ EndsSession(runner.inputs[Len(runner.inputs)])

\* C18: an interactive session that ended by an exit command, a keyboard
\* interrupt or end of input has written its transcript to a file by the time
\* run_interactive_mode returns.
C18_TranscriptWrittenOnExit ==
    runner.pc = "returned" /\ runner.inputs # <<>> =>
        runner.files = <<runner.conversation_history>>

-----------------------------------------------------------------------------
(* crew_adapter.py: IndividualAgentAdapter *)

MaxAgentCalls == 3

\* The roles of self.crew.crew.agents, in order.
AgentRoles ==
    <<"Customer Service Triage Specialist", "Technical Support Specialist",
      "Billing Support Specialist", "Customer Service Manager">>

\* A role no agent of the crew has.
UnknownRole == "Shift Supervisor"

\* IndividualAgentAdapter.__init__
NewAgentAdapter(agent_role) == [agent_role |-> agent_role, crew |-> 0, agent |-> "None"]

\* The adapter after _initialize_if_needed and str(e) of what it raised ("" when
\* it returned).  constructed says whether the crew constructor returns.
_initialize_if_needed(self, constructed) ==
    IF self.crew = 0
    THEN IF ~constructed
         THEN [self |-> self, raised |-> "crew init failed"]
         ELSE LET found == {k \in 1..Len(AgentRoles) : AgentRoles[k] = self.agent_role}
                  agent == IF found = {} THEN "None" ELSE self.agent_role
                  made  == [self EXCEPT !.crew = 1, !.agent = agent]
              IN  [self   |-> made,
                   raised |-> IF agent = "None"
                              THEN "Agent with role '" \o self.agent_role \o "' not found in crew"
                              ELSE ""]
    ELSE [self |-> self, raised |-> ""]

\* role_responses.get(self.agent_role, f"As a {self.agent_role}, ...")
_simulate_agent_response(self, message) ==
    CASE self.agent_role = "Customer Service Triage Specialist" ->
            "I'll help route your inquiry: '" \o message
                \o "'. Let me determine the best specialist for your needs."
      [] self.agent_role = "Technical Support Specialist" ->
            "I'll help you with this technical issue: '" \o message
                \o "'. Let me provide a step-by-step solution."
      [] self.agent_role = "Billing Support Specialist" ->
            "I'll assist you with this billing matter: '" \o message
                \o "'. Let me review your account and resolve this."
      [] self.agent_role = "Customer Service Manager" ->
            "I'll personally handle this escalated issue: '" \o message
                \o "'. Let me ensure we find the best solution for you."
      [] OTHER ->
            "As a " \o self.agent_role \o ", I'll help you with: '" \o message \o "'"

\* The latest new user message of an input; NoNewUserMessage when there is
\* none and last_new_user_message_str raises.
UserMessages == {"hello", "my bill is wrong"}

NoNewUserMessage == "(no new user message)"

InitAgent ==
    /\ AdapterIdle
    /\ fn = "IndividualAgentAdapter.call"
    /\ arg \in {NewAgentAdapter(AgentRoles[k]) : k \in 1..Len(AgentRoles)}
                \cup {NewAgentAdapter(UnknownRole)}
    /\ out = <<>>
    /\ judges = NewJudges
    /\ runner = NoRunner

\* IndividualAgentAdapter.call (lines 209-234), a whole call: it has no await
\* that yields.
IndividualAgentAdapter_call ==
    /\ fn = "IndividualAgentAdapter.call"
    /\ Len(out) < MaxAgentCalls
    /\ \E message \in UserMessages \cup {NoNewUserMessage},
          constructed \in (IF arg.crew = 0 THEN BOOLEAN ELSE {TRUE}) :
          LET init   == _initialize_if_needed(arg, constructed)
              result == IF init.raised # ""
                        THEN "Error in individual agent adapter: " \o init.raised
                        ELSE IF message = NoNewUserMessage
                        THEN "Error in individual agent adapter: No new user messages found"
                        ELSE _simulate_agent_response(init.self, message)
          IN  /\ arg' = init.self
              /\ out' = Append(out, [message |-> message, constructed |-> constructed,
                                     result |-> result])
    /\ UNCHANGED fn
    /\ UNCHANGED <<adapterVars, judges, runner>>

NextAgent == IndividualAgentAdapter_call

SpecAgent == InitAgent /\ [][NextAgent]_vars

\* C25: an adapter whose agent_role matches no agent of the crew returns the
\* same string on every call with the same user message, the first call and
\* the later ones alike (the crew constructor not failing).
C25_UnknownRoleSameOutcomeEveryCall ==
    arg.agent_role = UnknownRole =>
        \A i, j \in 1..Len(out) :
            (/\ out[i].message = out[j].message
             /\ out[i].message \in UserMessages
             /\ out[i].constructed /\ out[j].constructed)
            => out[i].result = out[j].result

\* The step in which a command line is read.
CommandRead(text) ==
    /\ IsCommand(text)
    /\ runner.pc = "reading"
    /\ runner'.inputs = Append(runner.inputs, Typed(text, "none"))

\* C30: in interactive mode the commands help, history and clear, in any
\* letter case, never invoke the responder; help and history leave the
\* in-memory transcript as it was and clear leaves it empty; the session
\* goes on reading.
C30_CommandStep ==
    \A text \in UserInputs : CommandRead(text) =>
        /\ runner'.invoked = runner.invoked
        /\ runner'.conversation_history =
               IF InputLower(text) = "clear" THEN <<>> ELSE runner.conversation_history
        /\ runner'.pc = "reading"
        /\ runner'.files = runner.files

C30_CommandsLeaveResponderAlone == [][C30_CommandStep]_vars

\* C30 witness: a session in which help, History and clear have been typed,
\* the responder was never invoked and the session is still reading.
C30_Witness ==
    /\ runner # NoRunner
    /\ runner.pc = "reading"
    /\ \A text \in {"help", "History", "clear"} :
          \E k \in 1..Len(runner.inputs) : runner.inputs[k] = Typed(text, "none")
    /\ runner.invoked = <<>>
    /\ runner.conversation_history = <<>>

====
